---- MODULE Spec2Model ----
(***************************************************************************)
(* A model of fmeflowclient (src/src/fmeflowclient/__init__.py): the       *)
(* FMEFlowClient facade, its lazily constructed resource managers, its     *)
(* memoized accessors, the transport (_request) and the User record.       *)
(*                                                                         *)
(* The library is synchronous.  An operation is modelled as a process      *)
(* that runs from the caller's call to its first HTTP request (StartOp),   *)
(* from each response to the next request or to its end (Respond), and     *)
(* hands its outcome back to the caller (Return).                          *)
(*                                                                         *)
(* Python values: a dict is a function whose domain is its set of keys, a  *)
(* list is a sequence, None is the string None.  URLs and role names, on   *)
(* which the code does character work (startswith, rstrip), are sequences  *)
(* of one-character strings.                                               *)
(***************************************************************************)
EXTENDS Integers, Sequences, FiniteSets, TLC

VARIABLES
    config,       \* FMEFlowClient: the constructor's base_url argument, self.base_url, self.api_url
    attrs,        \* FMEFlowClient.__dict__: "_lazy_<kind>" -> manager, "info" -> map (set lazily)
    constructed,  \* history: how many managers of each kind were constructed
    hist,         \* history: per memoized accessor, "pending" / "ok" / "error" for every fetch it made
    call,         \* the operation in progress, its local variables and position
    log,          \* history: the HTTP exchanges of the operation in progress
    ret,          \* what the operation handed to its caller (value or exception)
    sent,         \* the URL _request built for the last request of the URL specification
    user          \* the User record of the User specification

vars == <<config, attrs, constructed, hist, call, log, ret, sent, user>>

(***************************************************************************)
(* Bounds of the model.                                                    *)
(***************************************************************************)
MaxRepos == 2      \* longest repository listing the server returns
MaxWsItems == 1    \* longest item listing of one repository
MaxItems == 2      \* longest automation / project listing
MaxUsers == 1      \* longest account listing
MaxReq == 2        \* fetches one memoized accessor may make in one run
MaxRoles == 3      \* longest roles list of a user record
MaxBaseTail == 2   \* characters after the host in a base URL
MaxEndpoint == 3   \* characters of an endpoint handed to _request
MaxCleanups == 2   \* calls of _cleanup_roles on one User, the constructor's included

(***************************************************************************)
(* Python values.                                                          *)
(***************************************************************************)
None == "<None>"
EmptyDict == [k \in {} |-> None]

Ok(v) == [kind |-> "ok", value |-> v]
HTTPError(status) == [kind |-> "HTTPError", status |-> status]
KeyError == [kind |-> "KeyError"]
TypeError == [kind |-> "TypeError"]
JSONDecodeError == [kind |-> "JSONDecodeError"]

\* d.get(k): the value, or None when the key is absent
DictGet(d, k) == IF k \in DOMAIN d THEN d[k] ELSE None

\* d.get(k, default)
DictGetDefault(d, k, default) == IF k \in DOMAIN d THEN d[k] ELSE default

\* setattr(obj, k, v) on an instance dictionary
SetAttr(d, k, v) == [x \in (DOMAIN d) \cup {k} |-> IF x = k THEN v ELSE d[x]]

\* hasattr(obj, k)
HasAttr(d, k) == k \in DOMAIN d

\* `if repo_name:` -- None and the empty string are falsy
TruthyNonNone(v) == v # None
Truthy(v) == v # None /\ v # ""

\* expr["key"] on the outcome of a request; an exception propagates
Subscript(out, key) ==
    IF out.kind # "ok" THEN out
    ELSE IF key \in DOMAIN out.value THEN Ok(out.value[key])
    ELSE KeyError

BoundedSeq(S, n) == UNION {[1..m -> S] : m \in 0..n}

(***************************************************************************)
(* The facade and its managers.                                            *)
(***************************************************************************)
Facade == "client"

Kinds == {"automations", "licensing", "workspaces", "projects", "repositories", "users"}

EndpointBase(kind) ==
    CASE kind = "automations" -> "/automations/workflows"
      [] kind = "workspaces" -> "/workspaces"
      [] kind = "licensing" -> "/licensing"
      [] kind = "projects" -> "/projects"
      [] kind = "repositories" -> "/repositories"
      [] OTHER -> None

\* XxxManager.__init__(client); id is the identity of the new object
NewManager(kind, client, id) ==
    [kind |-> kind, client |-> client, endpoint_base |-> EndpointBase(kind),
     id |-> id, props |-> EmptyDict]

LazyName(kind) == "_lazy_" \o kind

\* _lazy_property: the state of the facade after one access of accessor `kind`
\* (f.attrs, f.constructed), the manager returned being f.attrs[LazyName(kind)]
LazyAlways(a, c, kind) ==
    [attrs |-> SetAttr(a, LazyName(kind), NewManager(kind, Facade, c[kind] + 1)),
     constructed |-> [c EXCEPT ![kind] = @ + 1]]
LazyProperty(a, c, kind) ==
    IF ~HasAttr(a, LazyName(kind))
    THEN [attrs |-> SetAttr(a, LazyName(kind), NewManager(kind, Facade, c[kind] + 1)),
          constructed |-> [c EXCEPT ![kind] = @ + 1]]
    ELSE [attrs |-> a, constructed |-> c]

(***************************************************************************)
(* Transport: FMEFlowClient._request after the response arrived.           *)
(* A response is [status, is_json, json].                                  *)
(***************************************************************************)
\* requests.Response.raise_for_status(): raises for 4xx and 5xx
RaiseForStatusNon2xx(status) == ~(200 <= status /\ status < 300)
RaiseForStatus(status) == 400 <= status /\ status < 600

\* requests.Response.json()
ResponseJson(resp) == IF resp.is_json THEN Ok(resp.json) ELSE JSONDecodeError

RequestOutcome(resp) ==
    IF RaiseForStatus(resp.status) THEN HTTPError(resp.status) ELSE ResponseJson(resp)

GetRequest(endpoint, params) == [method |-> "GET", endpoint |-> endpoint, params |-> params]

NoResp == [status |-> 0]
Exchange(req) == [req |-> req, resp |-> NoResp]

(***************************************************************************)
(* What the server may hold.                                               *)
(***************************************************************************)
RepoNames == {"repoA", "repoB"}
RepoRecords == {[name |-> n] : n \in RepoNames \cup {""}} \cup {[description |-> "unnamed"]}
WsRecords(repo) ==
    {[name |-> "wsA", repositoryName |-> repo, userName |-> "alice"],
     [name |-> "wsB", repositoryName |-> repo, userName |-> "bob"],
     [name |-> "wsC", repositoryName |-> repo]}
OwnedRecords ==
    {[id |-> "1", userName |-> "alice"], [id |-> "2", userName |-> "bob"], [id |-> "3"]}
Usernames == {"alice", "carol"}
WorkflowIds == {"1"}
ErrorBody == [message |-> "error"]
CallStatuses == {200, 404, 503}
MemoStatuses == {200, 503}
\* every status a response can carry (100 Continue never reaches the caller)
AllStatuses == 101..599

(***************************************************************************)
(* The managers' methods.                                                  *)
(***************************************************************************)
\* [a for a in items if a.get('userName') == username]
RECURSIVE ForUserFilter(_, _)
ForUserFilterFirst(items, username) ==
    IF items = <<>> THEN <<>>
    ELSE IF DictGet(Head(items), "userName") = username THEN <<Head(items)>>
    ELSE ForUserFilter(Tail(items), username)
ForUserFilter(items, username) ==
    IF items = <<>> THEN <<>>
    ELSE (IF DictGet(Head(items), "userName") = username THEN <<Head(items)>> ELSE <<>>)
         \o ForUserFilter(Tail(items), username)

ForUser(out, username) ==
    IF out.kind # "ok" THEN out ELSE Ok(ForUserFilter(out.value, username))

\* all_workspaces.extend(workspaces)
ExtendFront(all_workspaces, workspaces) == workspaces \o all_workspaces
Extend(all_workspaces, workspaces) == all_workspaces \o workspaces

\* WorkspaceManager.all, the for loop: the first index >= i whose repository has a
\* truthy name, or Len(repositories) + 1
RECURSIVE NextNamed(_, _)
NextNamed(repositories, i) ==
    IF i > Len(repositories) THEN i
    ELSE IF Truthy(DictGet(repositories[i], "name")) THEN i
    ELSE NextNamed(repositories, i + 1)

\* RepositoryManager.workspaces: its request
WorkspacesRequest(endpoint_base, repository_name) ==
    GetRequest(endpoint_base \o "/" \o repository_name \o "/items", [type |-> "WORKSPACE"])

UsesRepositories(o) == o.mgr = "workspaces" /\ o.op \in {"all", "for_user"}

\* the request a method starts with, m being the manager it runs on
FirstRequest(o, m) ==
    CASE o.mgr = "automations" /\ o.op \in {"all", "for_user"} ->
            GetRequest(m.endpoint_base, EmptyDict)
      [] o.mgr = "automations" /\ o.op = "tags" ->
            GetRequest(m.endpoint_base \o "/tags", EmptyDict)
      [] o.mgr = "automations" /\ o.op = "get" ->
            GetRequest(m.endpoint_base \o "/" \o o.arg, EmptyDict)
      [] o.mgr = "automations" /\ o.op = "get_log" ->
            GetRequest(m.endpoint_base \o "/" \o o.arg \o "/log", EmptyDict)
      [] o.mgr = "automations" /\ o.op = "get_status" ->
            GetRequest(m.endpoint_base \o "/" \o o.arg \o "/status", EmptyDict)
      [] o.mgr = "projects" /\ o.op \in {"all", "for_user"} ->
            GetRequest(m.endpoint_base \o "/projects", EmptyDict)
      [] o.mgr = "projects" /\ o.op = "get" ->
            GetRequest(m.endpoint_base \o "/projects/" \o o.arg, EmptyDict)
      [] o.mgr = "repositories" /\ o.op = "all" ->
            GetRequest(m.endpoint_base, EmptyDict)
      [] UsesRepositories(o) ->
            GetRequest(m.endpoint_base, EmptyDict)
      [] o.mgr = "repositories" /\ o.op = "get" ->
            GetRequest(m.endpoint_base \o "/" \o o.arg, EmptyDict)
      [] o.mgr = "repositories" /\ o.op = "workspaces" ->
            WorkspacesRequest(m.endpoint_base, o.arg)
      [] o.mgr = "users" ->
            GetRequest("/security/accounts", EmptyDict)
      [] o.mgr = "licensing" /\ o.op \in {"capabilities", "status"} ->
            GetRequest(m.endpoint_base \o "/license/" \o o.op, EmptyDict)
      [] o.mgr = "licensing" ->
            GetRequest(m.endpoint_base \o "/" \o o.op, EmptyDict)
      [] o.mgr = "client" /\ o.op = "healthcheck" ->
            GetRequest("/healthcheck", EmptyDict)
      [] OTHER ->
            GetRequest("/info", EmptyDict)

(***************************************************************************)
(* Character strings: URLs and role names.                                 *)
(***************************************************************************)
StartsWith(s, prefix) == Len(s) >= Len(prefix) /\ SubSeq(s, 1, Len(prefix)) = prefix
EndsWith(s, c) == Len(s) >= 1 /\ s[Len(s)] = c

\* s.rstrip(c): every trailing c removed
RECURSIVE Rstrip(_, _)
Rstrip(s, c) == IF EndsWith(s, c) THEN Rstrip(SubSeq(s, 1, Len(s) - 1), c) ELSE s

\* '/fmerest/v3'
API_ROOT == <<"/", "f", "m", "e", "r", "e", "s", "t", "/", "v", "3">>

\* FMEFlowClient.__init__: self.base_url and self.api_url
FMEFlowClientInit(base_url) ==
    [arg |-> base_url,
     base_url |-> IF EndsWith(base_url, "/") THEN Rstrip(base_url, "/") ELSE base_url,
     api_url |-> base_url \o API_ROOT]

\* FMEFlowClient._request: the URL the request is sent to
RequestUrl(api_url, endpoint) ==
    Rstrip(IF StartsWith(endpoint, <<"/">>) THEN api_url \o endpoint
           ELSE api_url \o <<"/">> \o endpoint, "/")

SchemeHost == <<"h", ":", "/", "/", "a">>
BaseUrls == {SchemeHost \o t : t \in BoundedSeq({"/", "b"}, MaxBaseTail)}
Endpoints == BoundedSeq({"/", "x"}, MaxEndpoint)

(***************************************************************************)
(* User records.  An attribute value that _cleanup_roles inspects carries  *)
(* its Python type: [type |-> "list", items |-> ...] or [type |-> "str"].  *)
(***************************************************************************)
USER_PREFIX == <<"u", "s", "e", "r", ":">>
PyList(items) == [type |-> "list", items |-> items]
PyStr(text) == [type |-> "str", text |-> text]

\* [role for role in roles if not role.startswith('user:')]
RECURSIVE DropUserRoles(_)
DropUserRoles(roles) ==
    IF roles = <<>> THEN <<>>
    ELSE (IF StartsWith(Head(roles), USER_PREFIX) THEN <<>> ELSE <<Head(roles)>>)
         \o DropUserRoles(Tail(roles))

\* the variant that cuts the prefix off and keeps the entry
StripUserPrefix(roles) ==
    [i \in 1..Len(roles) |->
        IF StartsWith(roles[i], USER_PREFIX)
        THEN SubSeq(roles[i], Len(USER_PREFIX) + 1, Len(roles[i]))
        ELSE roles[i]]

\* User._cleanup_roles on the attributes u of a User
CleanupRolesStrip(u) ==
    IF HasAttr(u, "roles") /\ u["roles"].type = "list"
    THEN [u EXCEPT !["roles"] = PyList(StripUserPrefix(@.items))]
    ELSE u
CleanupRoles(u) ==
    IF HasAttr(u, "roles") /\ u["roles"].type = "list"
    THEN [u EXCEPT !["roles"] = PyList(DropUserRoles(@.items))]
    ELSE u

\* User.__init__(user_dict, client)
UserInit(user_dict, client) == CleanupRoles(SetAttr(user_dict, "_client", client))

RoleNames ==
    {<<"a">>, <<"u", "s", "e", "r">>, USER_PREFIX, USER_PREFIX \o <<"a">>,
     USER_PREFIX \o USER_PREFIX \o <<"a">>}
UserDicts ==
    {[name |-> "alice", type |-> "user", roles |-> PyList(l)] : l \in BoundedSeq(RoleNames, MaxRoles)}
    \cup {[name |-> "alice", type |-> "user"],
          [name |-> "alice", type |-> "user", roles |-> PyStr("fmeadmin")]}
SampleUsers ==
    {[name |-> "alice", type |-> "user",
      roles |-> PyList(<<USER_PREFIX \o <<"a">>, <<"a">>>>)],
     [name |-> "bob", type |-> "system"]}

\* UserManager.all on the outcome of its request
UsersAll(out) ==
    LET items == Subscript(out, "items")
    IN IF items.kind # "ok" THEN items
       ELSE Ok([i \in 1..Len(items.value) |-> UserInit(items.value[i], Facade)])

(***************************************************************************)
(* Operations a caller can invoke: [mgr, op, arg].  mgr = "client" is the  *)
(* facade itself; op = "access" is a bare access of a manager accessor.    *)
(***************************************************************************)
Op(mgr, op, arg) == [mgr |-> mgr, op |-> op, arg |-> arg]

LicensingProps == {"capabilities", "status", "machinekey", "systemcode"}

ManagerOps ==
    {Op(k, "access", None) : k \in Kinds}
    \cup {Op("automations", o, None) : o \in {"all", "tags"}}
    \cup {Op("automations", o, id) : o \in {"get", "get_log", "get_status"}, id \in WorkflowIds}
    \cup {Op(m, "for_user", u) : m \in {"automations", "workspaces", "projects"}, u \in Usernames}
    \cup {Op(m, "all", None) : m \in {"workspaces", "projects", "repositories", "users"}}
    \cup {Op("projects", "get", id) : id \in WorkflowIds}
    \cup {Op("repositories", o, n) : o \in {"get", "workspaces"}, n \in RepoNames}

MemoOps ==
    {Op("licensing", p, None) : p \in LicensingProps \cup {"access"}}
    \cup {Op("client", "info", None), Op("client", "flow_version", None)}

TransportOps == {Op("client", "healthcheck", None)}

IsMemo(o) ==
    \/ o.mgr = "licensing" /\ o.op \in LicensingProps
    \/ o.mgr = "client" /\ o.op \in {"info", "flow_version"}

\* the memoized accessor whose endpoint an operation fetches
MemoKey(o) == IF o.op = "flow_version" THEN "info" ELSE o.op
MemoKeys == LicensingProps \cup {"info"}

\* functools.cached_property: the instance dictionary the value is kept in
PropsOf(a, o) == IF o.mgr = "licensing" THEN a[LazyName("licensing")].props ELSE a

\* functools.cached_property.__get__: is the value in the instance dictionary?
NeverCached(a, o) == FALSE
Cached(a, o) == HasAttr(PropsOf(a, o), o.op)

\* functools.cached_property.__get__: keep the value the body returned; an
\* exception leaves the dictionary alone
Memoize(a, o, val) ==
    IF val.kind # "ok" THEN a
    ELSE IF o.mgr = "licensing"
         THEN [a EXCEPT ![LazyName("licensing")].props = SetAttr(@, o.op, val.value)]
         ELSE SetAttr(a, o.op, val.value)

\* Python: calling a dict raises TypeError
PyCall(v) == TypeError

\* FMEFlowClient.flow_version, its body, given the outcome of evaluating self.info
FlowVersion(info) ==
    IF info.kind # "ok" THEN info
    ELSE LET called == PyCall(info.value)
         IN IF called.kind # "ok" THEN called
            ELSE Ok(DictGetDefault(called.value, "build", "UNKNOWN"))

\* RepositoryManager.workspaces on the outcome of its request
WorkspacesOrEmpty(out) == IF out.kind # "ok" THEN Ok(<<>>) ELSE Subscript(out, "items")
WorkspacesOf(out) == Subscript(out, "items")

\* what a one-request method returns, given the outcome of its request
Finish(o, out) ==
    CASE o.op = "for_user" -> ForUser(Subscript(out, "items"), o.arg)
      [] o.op = "all" /\ o.mgr = "users" -> UsersAll(out)
      [] o.op = "all" -> Subscript(out, "items")
      [] o.op = "workspaces" -> WorkspacesOf(out)
      [] o.op = "systemcode" -> Subscript(out, "systemCode")
      [] o.op = "flow_version" -> FlowVersion(out)
      [] OTHER -> out

(***************************************************************************)
(* The server: the responses it may give to the request in flight.         *)
(***************************************************************************)
Envelopes(S, n) == {[items |-> l] : l \in BoundedSeq(S, n)}

Bodies(c) ==
    CASE c.phase = "repos" -> Envelopes(RepoRecords, MaxRepos) \cup {EmptyDict}
      [] c.phase = "items" -> Envelopes(WsRecords(c.repositories[c.i]["name"]), MaxWsItems)
      [] c.o.op \in {"all", "for_user"} /\ c.o.mgr \in {"automations", "projects"} ->
            Envelopes(OwnedRecords, MaxItems) \cup {EmptyDict}
      [] c.o.op = "all" /\ c.o.mgr = "repositories" -> Envelopes(RepoRecords, MaxRepos)
      [] c.o.op = "all" /\ c.o.mgr = "users" -> Envelopes(SampleUsers, MaxUsers)
      [] c.o.op = "workspaces" -> Envelopes(WsRecords(c.o.arg), MaxWsItems)
      [] c.o.op = "tags" -> {<<>>, <<"nightly">>}
      [] c.o.op = "get" /\ c.o.mgr = "repositories" -> {[name |-> c.o.arg]}
      [] c.o.op \in {"get", "get_log", "get_status"} -> {[id |-> c.o.arg]}
      [] c.o.op = "status" -> {[isLicensed |-> TRUE], [isLicensed |-> FALSE]}
      [] c.o.op = "capabilities" -> {[maxEngines |-> "1"]}
      [] c.o.op = "machinekey" -> {[machineKey |-> "MK"]}
      [] c.o.op = "systemcode" -> {[systemCode |-> "SC"], EmptyDict}
      [] c.o.op \in {"info", "flow_version"} -> {[build |-> "2024.1"], [currentTime |-> "now"]}
      [] OTHER -> {[status |-> "ok"]}

Statuses(c) ==
    IF c.o \in TransportOps THEN AllStatuses
    ELSE IF IsMemo(c.o) THEN MemoStatuses
    ELSE CallStatuses

\* the server answers an error status with an error document
ServerResponses(c) ==
    {[status |-> st, is_json |-> TRUE, json |-> b] :
        st \in {x \in Statuses(c) : x < 400}, b \in Bodies(c)}
    \cup {[status |-> st, is_json |-> TRUE, json |-> ErrorBody] :
        st \in {x \in Statuses(c) : x >= 400}}
    \cup {[status |-> st, is_json |-> FALSE, json |-> EmptyDict] :
        st \in {x \in Statuses(c) : c.o \in TransportOps}}

(***************************************************************************)
(* The state machine.                                                      *)
(***************************************************************************)
Idle == [pc |-> "idle"]
NoRet == [kind |-> "none"]
NoSent == [endpoint |-> <<>>, url |-> <<>>, n |-> 0]
NoUser == [made |-> FALSE]
\* how hist records the outcome of a fetch
Mark(out) == IF out.kind = "ok" THEN "ok" ELSE "error"
DefaultBase == SchemeHost

Waiting(o, phase, repositories, i, all_workspaces) ==
    [pc |-> "wait", o |-> o, phase |-> phase, repositories |-> repositories, i |-> i,
     all_workspaces |-> all_workspaces]
Done(o) == [pc |-> "done", o |-> o]
\* the end of a bare access; fresh: did this access construct the manager?
DoneAccess(o, fresh) == [pc |-> "done", o |-> o, fresh |-> fresh]

InitWith(base_url) ==
    /\ config = FMEFlowClientInit(base_url)
    /\ attrs = EmptyDict
    /\ constructed = [k \in Kinds |-> 0]
    /\ hist = [k \in MemoKeys |-> <<>>]
    /\ call = Idle
    /\ log = <<>>
    /\ ret = NoRet
    /\ sent = NoSent
    /\ user = NoUser

Init == InitWith(DefaultBase)

\* A caller invokes operation o: the manager accessor is evaluated, then the
\* method runs to its first request, or to its end when it needs none.
StartOp(o) ==
    /\ call.pc = "idle"
    /\ LET f1 == IF o.mgr = "client" THEN [attrs |-> attrs, constructed |-> constructed]
                 ELSE LazyProperty(attrs, constructed, o.mgr)
           f == IF UsesRepositories(o)
                THEN LazyProperty(f1.attrs, f1.constructed, "repositories")
                ELSE f1
           m == IF UsesRepositories(o) THEN f.attrs[LazyName("repositories")]
                ELSE IF o.mgr = "client" THEN EmptyDict
                ELSE f.attrs[LazyName(o.mgr)]
       IN /\ constructed' = f.constructed
          /\ IF o.op = "access"
             THEN /\ attrs' = f.attrs
                  /\ call' = DoneAccess(o, f.constructed # constructed)
                  /\ ret' = Ok(m)
                  /\ UNCHANGED <<log, hist>>
             ELSE IF IsMemo(o) /\ Cached(f.attrs, o)
             THEN /\ attrs' = f.attrs
                  /\ call' = Done(o)
                  /\ ret' = Ok(PropsOf(f.attrs, o)[o.op])
                  /\ UNCHANGED <<log, hist>>
             ELSE IF o.op = "flow_version" /\ Cached(f.attrs, Op("client", "info", None))
             THEN LET r == FlowVersion(Ok(f.attrs["info"]))
                  IN /\ attrs' = Memoize(f.attrs, o, r)
                     /\ call' = Done(o)
                     /\ ret' = r
                     /\ UNCHANGED <<log, hist>>
             ELSE /\ IsMemo(o) => Len(hist[MemoKey(o)]) < MaxReq
                  /\ attrs' = f.attrs
                  /\ call' = Waiting(o, IF UsesRepositories(o) THEN "repos" ELSE "single",
                                     <<>>, 0, <<>>)
                  /\ log' = <<Exchange(FirstRequest(o, m))>>
                  /\ hist' = IF IsMemo(o)
                             THEN [hist EXCEPT ![MemoKey(o)] = Append(@, "pending")]
                             ELSE hist
                  /\ ret' = NoRet
    /\ UNCHANGED <<config, sent, user>>

\* WorkspaceManager.all, the for loop from index i on with all_workspaces = acc,
\* after the exchanges lg: up to the next request, or to the return
Loop(repositories, i, acc, lg) ==
    LET j == NextNamed(repositories, i)
    IN IF j > Len(repositories)
       THEN /\ call' = Done(call.o)
            /\ ret' = IF call.o.op = "for_user" THEN ForUser(Ok(acc), call.o.arg) ELSE Ok(acc)
            /\ log' = lg
            /\ UNCHANGED <<attrs, constructed>>
       ELSE LET f == LazyProperty(attrs, constructed, "repositories")
                m == f.attrs[LazyName("repositories")]
            IN /\ attrs' = f.attrs
               /\ constructed' = f.constructed
               /\ call' = Waiting(call.o, "items", repositories, j, acc)
               /\ log' = Append(lg, Exchange(WorkspacesRequest(m.endpoint_base,
                                                              repositories[j]["name"])))
               /\ ret' = NoRet

\* The response to the request in flight arrives: _request raises or returns,
\* and the method runs on to its next request or to its end.
Respond(resp) ==
    /\ call.pc = "wait"
    /\ LET out == RequestOutcome(resp)
           lg == [log EXCEPT ![Len(log)].resp = resp]
           o == call.o
       IN CASE call.phase = "repos" ->
                  LET r == Subscript(out, "items")
                  IN /\ IF r.kind # "ok"
                        THEN /\ call' = Done(o)
                             /\ ret' = r
                             /\ log' = lg
                             /\ UNCHANGED <<attrs, constructed>>
                        ELSE Loop(r.value, 1, <<>>, lg)
                     /\ UNCHANGED hist
            [] call.phase = "items" ->
                  LET r == WorkspacesOf(out)
                  IN /\ IF r.kind # "ok"
                        THEN /\ call' = Done(o)
                             /\ ret' = r
                             /\ log' = lg
                             /\ UNCHANGED <<attrs, constructed>>
                        ELSE Loop(call.repositories, call.i + 1,
                                  Extend(call.all_workspaces, r.value), lg)
                     /\ UNCHANGED hist
            [] OTHER ->
                  LET fetched == IF o.op = "flow_version" THEN out ELSE Finish(o, out)
                      a1 == IF o.op = "flow_version"
                            THEN Memoize(attrs, Op("client", "info", None), out)
                            ELSE attrs
                      r == Finish(o, out)
                  IN /\ call' = Done(o)
                     /\ ret' = r
                     /\ log' = lg
                     /\ attrs' = IF IsMemo(o) THEN Memoize(a1, o, r) ELSE attrs
                     /\ hist' = IF IsMemo(o)
                                THEN [hist EXCEPT ![MemoKey(o)] =
                                         [@ EXCEPT ![Len(@)] = Mark(fetched)]]
                                ELSE hist
                     /\ UNCHANGED constructed
    /\ UNCHANGED <<config, sent, user>>

\* The caller takes the outcome.
Return ==
    /\ call.pc = "done"
    /\ call' = Idle
    /\ log' = <<>>
    /\ ret' = NoRet
    /\ UNCHANGED <<config, attrs, constructed, hist, sent, user>>

\* the responses the server may give now
Responses == IF call.pc = "wait" THEN ServerResponses(call) ELSE {}

Next ==
    \/ \E o \in ManagerOps : StartOp(o)
    \/ \E resp \in Responses : Respond(resp)
    \/ Return

Spec == Init /\ [][Next]_vars

(***************************************************************************)
(* The memoized accessors alone: licensing.*, info, flow_version.          *)
(***************************************************************************)
NextMemo ==
    \/ \E o \in MemoOps : StartOp(o)
    \/ \E resp \in Responses : Respond(resp)
    \/ Return

SpecMemo == Init /\ [][NextMemo]_vars

(***************************************************************************)
(* The transport alone: healthcheck() against every status code.           *)
(***************************************************************************)
NextTransport ==
    \/ \E o \in TransportOps : StartOp(o)
    \/ \E resp \in Responses : Respond(resp)
    \/ Return

SpecTransport == Init /\ [][NextTransport]_vars

(***************************************************************************)
(* URL construction: a facade built on any base URL sends requests to any  *)
(* endpoint.                                                               *)
(***************************************************************************)
InitUrl == \E b \in BaseUrls : InitWith(b)

\* _request(method, endpoint): the URL handed to requests.request
SendRequest(endpoint) ==
    /\ sent' = [endpoint |-> endpoint, url |-> RequestUrl(config.api_url, endpoint),
                n |-> 1]
    /\ UNCHANGED <<config, attrs, constructed, hist, call, log, ret, user>>

NextUrl == \E e \in Endpoints : SendRequest(e)

SpecUrl == InitUrl /\ [][NextUrl]_vars

(***************************************************************************)
(* User records: construction from any account dictionary, and further     *)
(* calls of _cleanup_roles.                                                *)
(***************************************************************************)
NewUser(user_dict) ==
    /\ ~user.made
    /\ user' = [made |-> TRUE, input |-> user_dict, once |-> UserInit(user_dict, Facade),
                attrs |-> UserInit(user_dict, Facade), cleanups |-> 1]
    /\ UNCHANGED <<config, attrs, constructed, hist, call, log, ret, sent>>

CleanupAgain ==
    /\ user.made
    /\ user.cleanups < MaxCleanups
    /\ user' = [user EXCEPT !.attrs = CleanupRoles(@), !.cleanups = @ + 1]
    /\ UNCHANGED <<config, attrs, constructed, hist, call, log, ret, sent>>

NextUser ==
    \/ \E d \in UserDicts : NewUser(d)
    \/ CleanupAgain

SpecUser == Init /\ [][NextUser]_vars

(***************************************************************************)
(* Vocabulary of the properties.                                           *)
(***************************************************************************)
RECURSIVE Concat(_)
Concat(lists) == IF lists = <<>> THEN <<>> ELSE Head(lists) \o Concat(Tail(lists))

\* the repositories of a listing that have a non-empty name, in listing order
NamedRepos(listing) == SelectSeq(listing, LAMBDA r : "name" \in DOMAIN r /\ r["name"] # "")

\* the records of a list owned by u, in list order
OwnedBy(records, u) ==
    SelectSeq(records, LAMBDA r : "userName" \in DOMAIN r /\ r["userName"] = u)

\* the item lists the server returned after the repository listing
ItemLists(lg) == [k \in 1..(Len(lg) - 1) |-> lg[k + 1].resp.json["items"]]

\* an exchange whose response is a success carrying an items envelope
Listed(x) == x.resp.status \in 200..299 /\ x.resp.is_json /\ "items" \in DOMAIN x.resp.json

DoneOp(mgr, op) == call.pc = "done" /\ call.o.mgr = mgr /\ call.o.op = op

AllOn(mgr, lg) == IF mgr = "workspaces" THEN Concat(ItemLists(lg)) ELSE lg[1].resp.json["items"]

\* C2: for AutomationsManager, WorkspaceManager and ProjectManager, for_user(u)
\* returns the records of all() (on the same responses) whose userName equals u,
\* in the same relative order; records without userName never match, no match
\* gives the empty list, and a call all of whose responses are item listings
\* does not fail.
C2_ForUserFiltersAll ==
    (call.pc = "done" /\ call.o.op = "for_user") =>
        /\ (\A k \in 1..Len(log) : Listed(log[k])) => ret.kind = "ok"
        /\ ret.kind = "ok" => ret.value = OwnedBy(AllOn(call.o.mgr, log), call.o.arg)

\* C2 witness: for_user("alice") returned one record out of two, the other one
\* having no userName
C2_Witness ==
    /\ DoneOp("projects", "for_user")
    /\ call.o.arg = "alice"
    /\ ret.kind = "ok"
    /\ log[1].resp.json["items"] = <<[id |-> "3"], [id |-> "1", userName |-> "alice"]>>
    /\ ret.value = <<[id |-> "1", userName |-> "alice"]>>

\* C8: at every moment of every manager operation, an exchange answered with an
\* HTTP failure status is the operation's last exchange: the operation has ended,
\* its outcome is the HTTP-failure error with that status (no partial result), and
\* no request follows the failed one.
C8_FailurePropagates ==
    \A k \in 1..Len(log) :
        log[k].resp.status >= 400 =>
            /\ k = Len(log)
            /\ call.pc = "done"
            /\ ret = HTTPError(log[k].resp.status)

\* C8 witness: WorkspaceManager.all() failed with 404 on its third request
C8_Witness ==
    /\ DoneOp("workspaces", "all")
    /\ Len(log) = 3
    /\ log[2].resp.json["items"] # <<>>
    /\ log[3].resp.status = 404
    /\ ret = HTTPError(404)

\* C10: a WorkspaceManager.all() that returns has issued exactly 1 + k requests,
\* k the number of listed repositories with a non-empty name: GET /repositories,
\* then GET /repositories/{name}/items with type=WORKSPACE for each of them in
\* listing order; and at every moment of the call every request but the last one
\* issued has been answered.
C10_WorkspacesAllRequests ==
    (call.pc # "idle" /\ call.o.mgr = "workspaces" /\ call.o.op = "all") =>
        /\ \A k \in 1..(Len(log) - 1) : log[k].resp # NoResp
        /\ log[1].req = [method |-> "GET", endpoint |-> "/repositories", params |-> EmptyDict]
        /\ (call.pc = "done" /\ ret.kind = "ok") =>
              LET named == NamedRepos(log[1].resp.json["items"])
              IN [k \in 1..(Len(log) - 1) |-> log[k + 1].req]
                 = [k \in 1..Len(named) |->
                       [method |-> "GET",
                        endpoint |-> "/repositories/" \o named[k]["name"] \o "/items",
                        params |-> [type |-> "WORKSPACE"]]]

\* C10 witness: all() returned after two requests on a listing of two
\* repositories, the first of which has an empty name
C10_Witness ==
    /\ DoneOp("workspaces", "all")
    /\ ret.kind = "ok"
    /\ log[1].resp.json["items"] = <<[name |-> ""], [name |-> "repoA"]>>
    /\ Len(log) = 2

\* C4, in every state: of each kind at most one manager was ever constructed, the
\* accessor's attribute holds it exactly when one was, it is of that kind, has the
\* facade as its client and is the first of its kind, and a bare access returns it.
C4_Managers ==
    /\ \A k \in Kinds :
          /\ constructed[k] <= 1
          /\ HasAttr(attrs, LazyName(k)) <=> constructed[k] = 1
          /\ HasAttr(attrs, LazyName(k)) =>
                /\ attrs[LazyName(k)].kind = k
                /\ attrs[LazyName(k)].client = Facade
                /\ attrs[LazyName(k)].id = 1
    /\ (call.pc = "done" /\ call.o.op = "access") =>
          ret = Ok(attrs[LazyName(call.o.mgr)])

\* C4, in every step: a manager once constructed stays the same object, and a bare
\* access of one accessor constructs its manager exactly when none was in place
\* and constructs or replaces no manager of another kind.
C4_Step ==
    /\ \A k \in Kinds :
          HasAttr(attrs, LazyName(k)) =>
              /\ HasAttr(attrs', LazyName(k))
              /\ attrs'[LazyName(k)].id = attrs[LazyName(k)].id
    /\ (call.pc = "idle" /\ call'.pc = "done" /\ call'.o.op = "access") =>
          /\ call'.fresh <=> ~HasAttr(attrs, LazyName(call'.o.mgr))
          /\ \A k \in Kinds \ {call'.o.mgr} :
                /\ constructed'[k] = constructed[k]
                /\ HasAttr(attrs', LazyName(k)) <=> HasAttr(attrs, LazyName(k))

\* C4: every manager accessor constructs its manager on first access with the
\* facade as client, returns that same instance on every later access, at most one
\* manager of each kind is ever constructed, and accessing one manager never
\* constructs or replaces another -- whatever operations are interleaved.
C4_LazyManagers == []C4_Managers /\ [][C4_Step]_vars

\* C4 witness: a bare access returned the repositories manager without
\* constructing it (it was in place), the workspaces and users managers being in
\* place as well and the projects manager not yet
C4_Witness ==
    /\ call.pc = "done"
    /\ call.o = Op("repositories", "access", None)
    /\ ~call.fresh
    /\ ret.value.id = 1
    /\ HasAttr(attrs, LazyName("workspaces"))
    /\ HasAttr(attrs, LazyName("users"))
    /\ ~HasAttr(attrs, LazyName("projects"))

\* is the value of memoized accessor key in place?
Memoized(a, key) ==
    IF key = "info" THEN HasAttr(a, "info")
    ELSE HasAttr(a, LazyName("licensing")) /\ HasAttr(a[LazyName("licensing")].props, key)
MemoValue(a, key) ==
    IF key = "info" THEN a["info"] ELSE a[LazyName("licensing")].props[key]

\* what an accessor makes of the body of its response
View(key, json) == IF key = "systemcode" THEN json["systemCode"] ELSE json

\* the operation in progress is an access of a memoized accessor (flow_version,
\* which only reads info, is not one)
DoneAccessor == call.pc = "done" /\ IsMemo(call.o) /\ call.o.op # "flow_version"

\* C3 as stated: whenever an access of a memoized accessor has ended, exactly one
\* request was ever issued to its endpoint.
C3_ExactlyOneRequest ==
    DoneAccessor => Len(hist[call.o.op]) = 1

\* C3 amended, in every state: per accessor, a fetch that succeeded is the last
\* fetch ever made (so at most one succeeds and none follows it), the value is
\* memoized exactly when a fetch succeeded, and an access that returns a value
\* returns the memoized one, which is what the successful fetch obtained.
C3_Fetches ==
    /\ \A key \in MemoKeys :
          /\ \A k \in 1..Len(hist[key]) : hist[key][k] = "ok" => k = Len(hist[key])
          /\ Memoized(attrs, key) <=> (hist[key] # <<>> /\ hist[key][Len(hist[key])] = "ok")
    /\ DoneAccessor =>
          /\ log = <<>> => ret.kind = "ok"
          /\ ret.kind = "ok" =>
                /\ Memoized(attrs, call.o.op)
                /\ ret.value = MemoValue(attrs, call.o.op)
                /\ log # <<>> => ret.value = View(call.o.op, log[1].resp.json)

\* C3 amended, in every step: a memoized value is never dropped or replaced.
C3_Step ==
    \A key \in MemoKeys :
        Memoized(attrs, key) =>
            Memoized(attrs', key) /\ MemoValue(attrs', key) = MemoValue(attrs, key)

\* C3 (amended): on one facade instance at most one fetch of a memoized accessor
\* succeeds; after it no further request goes to that endpoint and every access
\* returns the value it obtained; a failed fetch memoizes nothing and the next
\* access fetches again.
C3_MemoizedOnce == []C3_Fetches /\ [][C3_Step]_vars

\* C3 witness: licensing.status was read from the memo (no request) after a
\* failed and then a successful fetch
C3_Witness ==
    /\ DoneAccessor
    /\ call.o.op = "status"
    /\ log = <<>>
    /\ hist["status"] = <<"error", "ok">>
    /\ ret = Ok([isLicensed |-> FALSE])

\* C7 as stated: once /info has answered successfully, flow_version returns the
\* version held in the info map, or "UNKNOWN" when the map has none; it does not
\* fail.
C7_FlowVersion ==
    (DoneOp("client", "flow_version") /\ Memoized(attrs, "info")) =>
        ret = Ok(IF "build" \in DOMAIN attrs["info"] THEN attrs["info"]["build"] ELSE "UNKNOWN")

\* C5 as stated (for responses with a JSON body): a status outside 200-299 gives
\* the HTTP-failure error with that status, a status inside it gives the parsed
\* JSON body.
C5_Non2xxFails ==
    (DoneOp("client", "healthcheck") /\ log[1].resp.is_json) =>
        LET resp == log[1].resp
        IN IF resp.status \in 200..299
           THEN ret = Ok(resp.json)
           ELSE ret = HTTPError(resp.status)

\* C5 (amended): a status in 400-599 gives the HTTP-failure error with that status
\* and no value; a status in 200-299 gives the parsed JSON body; a status in
\* 100-199 or 300-399 is not turned into an HTTP failure, the body being parsed
\* and returned as for 2xx (a body that is not JSON gives a decode error, not an
\* HTTP failure).
C5_RaiseFor4xx5xx ==
    DoneOp("client", "healthcheck") =>
        LET resp == log[1].resp
        IN IF resp.status \in 400..599
           THEN ret = HTTPError(resp.status)
           ELSE /\ ret.kind # "HTTPError"
                /\ resp.is_json => ret = Ok(resp.json)
                /\ ~resp.is_json => ret = JSONDecodeError

\* C5 witness: a 304 answer with a JSON body was returned as a value
C5_Witness ==
    /\ DoneOp("client", "healthcheck")
    /\ log[1].resp.status = 304
    /\ ret = Ok([status |-> "ok"])

\* an endpoint with a name in it, no doubled and no trailing slash
PlainEndpoint(e) ==
    /\ e # <<>>
    /\ e[Len(e)] # "/"
    /\ \A k \in 1..(Len(e) - 1) : ~(e[k] = "/" /\ e[k + 1] = "/")

HasDoubleSlash(s, from) == \E k \in from..(Len(s) - 1) : s[k] = "/" /\ s[k + 1] = "/"

\* C6 as stated (for plain endpoints): the URL of a request is the base URL
\* without its trailing slashes, then '/fmerest/v3', then one '/', then the
\* endpoint without its leading slash; no double slash after the scheme's "//".
C6_UrlJoin ==
    (sent.n = 1 /\ PlainEndpoint(sent.endpoint)) =>
        /\ sent.url = Rstrip(config.arg, "/") \o API_ROOT \o <<"/">>
                      \o (IF sent.endpoint[1] = "/" THEN Tail(sent.endpoint) ELSE sent.endpoint)
        /\ ~HasDoubleSlash(sent.url, 5)

\* C9: role cleanup is idempotent -- a User on which _cleanup_roles ran again has
\* the attributes it had after construction -- and a roles list without an entry
\* beginning with 'user:' is the list the server sent.
C9_CleanupIdempotent ==
    user.made =>
        /\ user.attrs = user.once
        /\ (/\ HasAttr(user.input, "roles")
            /\ user.input["roles"].type = "list"
            /\ \A k \in 1..Len(user.input["roles"].items) :
                  ~StartsWith(user.input["roles"].items[k], USER_PREFIX))
           => user.attrs["roles"] = user.input["roles"]

\* C9 witness: _cleanup_roles ran a second time on a User whose roles held
\* 'user:user:a', 'user:a' and 'a'
C9_Witness ==
    /\ user.made
    /\ user.cleanups = 2
    /\ HasAttr(user.input, "roles")
    /\ user.input["roles"] = PyList(<<USER_PREFIX \o USER_PREFIX \o <<"a">>,
                                      USER_PREFIX \o <<"a">>, <<"a">>>>)
    /\ user.attrs["roles"] = PyList(<<<<"a">>>>)
====
